---- MODULE Spec2Model ----
(***************************************************************************)
(* cargo-config: named cargo configuration profiles kept in                *)
(* ~/.cargo/cargo-config/ and activated by hard-linking one of them to     *)
(* ~/.cargo/config.toml (src/src/main.rs).                                 *)
(*                                                                         *)
(* The state is the part of the filesystem the program touches.  File      *)
(* names, the pointer file's content and error messages are sequences of   *)
(* one-character strings, so that lengths, prefixes and substrings are     *)
(* what they are in the program.                                           *)
(*                                                                         *)
(* A filesystem value is a record                                          *)
(*   dir   : whether ~/.cargo/cargo-config/ exists                         *)
(*   files : the entries of that directory, file name -> content           *)
(*   cargo : ~/.cargo/config.toml: absent ("none"), a file of its own      *)
(*           ("own", with its data), or one more name of the file that is  *)
(*           the directory entry `to` ("link").                            *)
(* The program only ever hard-links a profile file to config.toml, so two  *)
(* names of one file are always config.toml and one directory entry;       *)
(* unlinking that entry leaves config.toml as the file's only name.        *)
(* ~ and ~/.cargo are taken to exist, and the names given on the command   *)
(* line are single path components (no "/").                               *)
(***************************************************************************)
EXTENDS Integers, Sequences, FiniteSets, Bags, TLC

VARIABLES fs, start, pre, last

vars == <<fs, start, pre, last>>

---------------------------------------------------------------------------
(* Bounds *)

\* how many of AllNames are used as command-line names
NumNames == 2
\* how many of AllContents an editor or the user can put in a file
NumContents == 1

---------------------------------------------------------------------------
(* Strings *)

dotToml == <<".", "t", "o", "m", "l">>

pointerName ==
    <<"c","a","r","g","o","-","c","o","n","f","i","g","-","c","u","r","r","e","n","t">>

configName == <<"c","o","n","f","i","g">>

doesNotExist ==
    <<" ","d","o","e","s"," ","n","o","t"," ","e","x","i","s","t">>

AllNames ==
    << configName, <<"a">>, <<"b","c">>, <<"a",".","t","o","m","l">>, <<"b">> >>

AllContents == << <<"A">>, <<"B">>, <<"C">> >>

Names == {AllNames[i] : i \in 1..NumNames}

Contents == {AllContents[i] : i \in 1..NumContents}

IsPrefix(p, s) == Len(p) <= Len(s) /\ SubSeq(s, 1, Len(p)) = p

\* s holds p as a contiguous substring
Contains(s, p) ==
    \E i \in 1..(Len(s) + 1) :
        i + Len(p) - 1 <= Len(s) /\ SubSeq(s, i, i + Len(p) - 1) = p

\* format!("{name}.toml")
TomlFile(name) == name \o dotToml

\* file_name.split(".toml") ... names[0]: the part before the first ".toml"
FirstSplit(s) ==
    LET hits == {i \in 1..Len(s) : IsPrefix(dotToml, SubSeq(s, i, Len(s)))}
    IN  IF hits = {} THEN s
        ELSE LET i == CHOOSE j \in hits : \A k \in hits : j <= k
             IN  SubSeq(s, 1, i - 1)

---------------------------------------------------------------------------
(* Filesystem primitives *)

NoCargo == [kind |-> "none", data |-> <<>>, to |-> <<>>]

Exists(f, p) == p \in DOMAIN f.files

CargoExists(f) == f.cargo.kind # "none"

\* what reading ~/.cargo/config.toml yields
CargoData(f) ==
    IF f.cargo.kind = "link" THEN f.files[f.cargo.to] ELSE f.cargo.data

\* ~/.cargo/config.toml and the directory entry p are one file
SameFile(f, p) == f.cargo.kind = "link" /\ f.cargo.to = p

PutFile(f, p, c) ==
    [f EXCEPT !.files = [q \in DOMAIN f.files \cup {p} |->
                            IF q = p THEN c ELSE f.files[q]]]

\* config.toml as a symbolic link would behave: gone with the entry it names
UnlinkDangling(f, p) ==
    [f EXCEPT !.files = [q \in DOMAIN f.files \ {p} |-> f.files[q]],
              !.cargo = IF SameFile(f, p) THEN NoCargo ELSE f.cargo]

\* unlink a directory entry: a config.toml that was its other name keeps
\* the data as a file of its own
UnlinkFile(f, p) ==
    [f EXCEPT !.files = [q \in DOMAIN f.files \ {p} |-> f.files[q]],
              !.cargo = IF SameFile(f, p)
                        THEN [kind |-> "own", data |-> f.files[p], to |-> <<>>]
                        ELSE f.cargo]

\* a file opened with append(true): the bytes go after the old content
WriteAppend(old, bytes) == old \o bytes

\* a write of `bytes` at offset 0 of a file opened without truncate or
\* append: the bytes beyond them stay
WriteAtStart(old, bytes) ==
    bytes \o SubSeq(old, Len(bytes) + 1, Len(old))

Ok(f) == [fs |-> f, err |-> "ok", msg |-> <<>>, out |-> EmptyBag]

Fail(f, kind, msg) == [fs |-> f, err |-> kind, msg |-> msg, out |-> EmptyBag]

\* the text of the operating system's error
OsMsg == <<"o","s">>

---------------------------------------------------------------------------
(* The program's functions: each yields the filesystem it leaves and its *)
(* io::Result                                                            *)

\* resolve_config_dir: `let _ = fs::create_dir(&path)`
resolve_config_dir(f) == [f EXCEPT !.dir = TRUE]

\* File::create in place of File::create_new: an existing file is truncated
create_config_truncating(f, name) ==
    Ok(PutFile(resolve_config_dir(f), TomlFile(name), <<>>))

\* create_config: File::create_new(<dir>/<name>.toml)
create_config(f, name) ==
    LET d == resolve_config_dir(f)
        path == TomlFile(name)
    IN  IF Exists(d, path)
        THEN Fail(d, "AlreadyExists", OsMsg)
        ELSE Ok(PutFile(d, path, <<>>))

\* switch_config, lines 86-92: create the pointer file if it cannot be
\* opened, then open it with write(true) alone and write the name
WritePointer(f, name) ==
    LET made == IF Exists(f, pointerName) THEN f ELSE PutFile(f, pointerName, <<>>)
    IN  PutFile(made, pointerName, WriteAtStart(made.files[pointerName], name))

\* switch_config, line 97: remove_file(~/.cargo/config.toml)?
RemoveCargo(f) ==
    IF CargoExists(f) THEN Ok([f EXCEPT !.cargo = NoCargo])
    ELSE Fail(f, "NotFound", OsMsg)

\* fs::rename in place of hard_link: the profile file leaves its directory
HardLinkRename(f, path) ==
    IF ~Exists(f, path) THEN Fail(f, "NotFound", OsMsg)
    ELSE Ok([f EXCEPT !.files = [q \in DOMAIN f.files \ {path} |-> f.files[q]],
                      !.cargo = [kind |-> "own", data |-> f.files[path], to |-> <<>>]])

\* switch_config, line 101: hard_link(<dir>/<name>.toml, ~/.cargo/config.toml)?
HardLink(f, path) ==
    IF ~Exists(f, path) THEN Fail(f, "NotFound", OsMsg)
    ELSE IF CargoExists(f) THEN Fail(f, "AlreadyExists", OsMsg)
    ELSE Ok([f EXCEPT !.cargo = [kind |-> "link", data |-> <<>>, to |-> path]])

\* a failed switch undone by deleting the pointer file
switch_config_undone(f, name) ==
    LET d == resolve_config_dir(f)
        written == WritePointer(d, name)
        removed == RemoveCargo(written)
        linked == IF removed.err # "ok" THEN removed
                  ELSE HardLink(removed.fs, TomlFile(name))
    IN  IF linked.err = "ok" THEN linked
        ELSE [linked EXCEPT !.fs = UnlinkFile(linked.fs, pointerName)]

\* the pointer file written last, once the link is made
switch_config_pointer_last(f, name) ==
    LET d == resolve_config_dir(f)
        removed == RemoveCargo(d)
        linked == IF removed.err # "ok" THEN removed
                  ELSE HardLink(removed.fs, TomlFile(name))
    IN  IF linked.err # "ok" THEN linked
        ELSE Ok(WritePointer(linked.fs, name))

\* the profile file looked for before config.toml is removed
switch_config_checked(f, name) ==
    LET d == resolve_config_dir(f)
        written == WritePointer(d, name)
    IN  IF ~Exists(written, TomlFile(name)) THEN Fail(written, "NotFound", OsMsg)
        ELSE HardLink(RemoveCargo(written).fs, TomlFile(name))

switch_config(f, name) ==
    LET d == resolve_config_dir(f)
        written == WritePointer(d, name)
        removed == RemoveCargo(written)
    IN  IF removed.err # "ok" THEN removed
        ELSE HardLink(removed.fs, TomlFile(name))

\* the names printed without the test against "cargo-config-current"
ListingAll(f) ==
    LET names == {FirstSplit(p) : p \in DOMAIN f.files}
    IN  [n \in names |-> Cardinality({p \in DOMAIN f.files : FirstSplit(p) = n})]

\* list_config, lines 116-125: the names printed, as a bag (the order is the
\* directory's)
Listing(f) ==
    LET shown == {p \in DOMAIN f.files : FirstSplit(p) # pointerName}
        names == {FirstSplit(p) : p \in shown}
    IN  [n \in names |-> Cardinality({p \in shown : FirstSplit(p) = n})]

\* the listing made without reading the pointer file first
list_config_unread(f) ==
    [Ok(resolve_config_dir(f)) EXCEPT !.out = Listing(resolve_config_dir(f))]

list_config(f) ==
    LET d == resolve_config_dir(f)
    IN  IF ~Exists(d, pointerName) THEN Fail(d, "NotFound", OsMsg)
        ELSE [Ok(d) EXCEPT !.out = Listing(d)]

\* a missing file taken for removed, the error dropped
remove_config_force(f, name) ==
    LET d == resolve_config_dir(f)
    IN  Ok(IF Exists(d, TomlFile(name)) THEN UnlinkFile(d, TomlFile(name)) ELSE d)

\* remove_config: fs::remove_file, any error mapped to NotFound
\* "<name> does not exist"
remove_config(f, name) ==
    LET d == resolve_config_dir(f)
        path == TomlFile(name)
    IN  IF Exists(d, path) THEN Ok(UnlinkFile(d, path))
        ELSE Fail(d, "NotFound", name \o doesNotExist)

\* the outcomes of which::which(editor) and of Command::spawn
WhichOutcomes ==
    {"found", "CannotFindBinaryPath", "CannotGetCurrentDirAndPathListEmpty",
     "CannotCanonicalize"}

SpawnOutcomes == {"spawned", "failed"}

\* edit_config: the filesystem is only touched by resolve_config_dir
edit_config(f, which, spawn, name) ==
    LET d == resolve_config_dir(f)
    IN  CASE which = "CannotFindBinaryPath" -> Fail(d, "NotFound", OsMsg)
          [] which = "CannotGetCurrentDirAndPathListEmpty" ->
                 Fail(d, "PermissionDenied", OsMsg)
          [] which = "CannotCanonicalize" -> Fail(d, "Other", OsMsg)
          [] OTHER -> IF spawn = "spawned" THEN Ok(d) ELSE Fail(d, "Os", OsMsg)

\* the copy made with File::create: an existing profile config is overwritten
CopyCargoOverwrite(f) == Ok(PutFile(f, TomlFile(configName), CargoData(f)))

\* the new profile created and nothing written to it
CopyCargoEmpty(f) ==
    IF Exists(f, TomlFile(configName)) THEN Fail(f, "AlreadyExists", OsMsg)
    ELSE Ok(PutFile(f, TomlFile(configName), <<>>))

\* initialise, lines 197-204: create_new(<dir>/config.toml), then copy the
\* bytes of ~/.cargo/config.toml into it
CopyCargo(f) ==
    LET path == TomlFile(configName)
    IN  IF Exists(f, path) THEN Fail(f, "AlreadyExists", OsMsg)
        ELSE Ok(PutFile(f, path, CargoData(f)))

\* the test for the pointer file left out
MigratesAnyway(f) == CargoExists(f)

\* initialise takes its migration path
Migrates(f) == ~Exists(f, pointerName) /\ CargoExists(f)

initialise(f) ==
    LET d == resolve_config_dir(f)
    IN  IF ~Migrates(d) THEN Ok(d)
        ELSE LET copied == CopyCargo(d)
             IN  IF copied.err # "ok" THEN copied
                 ELSE switch_config(copied.fs, configName)

\* main: initialise, then the subcommand; cmd is the parsed command line
\* and, for edit, what the environment answers
Dispatch(f, cmd) ==
    CASE cmd.op = "create" -> create_config(f, cmd.name)
      [] cmd.op = "switch" -> switch_config(f, cmd.name)
      [] cmd.op = "list"   -> list_config(f)
      [] cmd.op = "remove" -> remove_config(f, cmd.name)
      [] cmd.op = "edit"   -> edit_config(f, cmd.which, cmd.spawn, cmd.name)

main(f, cmd) ==
    LET ini == initialise(f)
    IN  IF ini.err # "ok"
        THEN [pre |-> ini.fs, dispatched |-> FALSE, res |-> ini]
        ELSE [pre |-> ini.fs, dispatched |-> TRUE, res |-> Dispatch(ini.fs, cmd)]

---------------------------------------------------------------------------
(* The state machine: one action per invocation of the program, and the  *)
(* steps of its environment                                              *)

EmptyFs == [dir |-> FALSE, files |-> [q \in {} |-> <<>>], cargo |-> NoCargo]

OwnCargo(c) == [kind |-> "own", data |-> c, to |-> <<>>]

NoCommand ==
    [op |-> "none", name |-> <<>>, dispatched |-> FALSE, err |-> "ok",
     msg |-> <<>>, out |-> EmptyBag]

\* before the program has ever run: no profile directory, and cargo's
\* config.toml either missing or written by the user
Init ==
    /\ \E c \in {NoCargo} \cup {OwnCargo(d) : d \in Contents} :
           fs = [EmptyFs EXCEPT !.cargo = c]
    /\ start = fs
    /\ pre = fs
    /\ last = NoCommand

\* one run of the program: fs becomes what main leaves; start, pre and last
\* record the filesystem at entry, the filesystem initialise left, and the
\* command with its result
Run(cmd) ==
    LET m == main(fs, cmd)
    IN  /\ fs' = m.res.fs
        /\ start' = fs
        /\ pre' = m.pre
        /\ last' = [op |-> cmd.op, name |-> cmd.name, dispatched |-> m.dispatched,
                    err |-> m.res.err, msg |-> m.res.msg, out |-> m.res.out]

Cmd(op, name) == [op |-> op, name |-> name, which |-> "found", spawn |-> "spawned"]

Create(name) == name \in Names /\ Run(Cmd("create", name))

Switch(name) == name \in Names /\ Run(Cmd("switch", name))

List == TRUE /\ Run(Cmd("list", <<>>))

Remove(name) == name \in Names /\ Run(Cmd("remove", name))

\* what the environment answers to edit: which::which's error, or the
\* result of Command::spawn
EditOutcomes ==
    {<<w, "failed">> : w \in WhichOutcomes \ {"found"}}
        \cup {<<"found", s>> : s \in SpawnOutcomes}

Edit(outcome, name) ==
    name \in Names /\ Run([op |-> "edit", name |-> name, which |-> outcome[1], spawn |-> outcome[2]])

Environment(op, name, f) ==
    /\ fs' = f
    /\ start' = fs
    /\ pre' = fs
    /\ last' = [NoCommand EXCEPT !.op = op, !.name = name]

\* the editor that edit has just launched saves its buffer, in place, to
\* <dir>/<name>.toml
EditorSave(c) ==
    /\ last.op = "edit" /\ last.dispatched /\ last.err = "ok"
    /\ Environment("save", last.name, PutFile(fs, TomlFile(last.name), c))

\* the user writes a ~/.cargo/config.toml where there is none
UserWritesCargo(c) ==
    /\ ~CargoExists(fs)
    /\ Environment("user", <<>>, [fs EXCEPT !.cargo = OwnCargo(c)])

Next ==
    \/ \E name \in Names : Create(name)
    \/ \E name \in Names : Switch(name)
    \/ List
    \/ \E name \in Names : Remove(name)
    \/ \E outcome \in EditOutcomes, name \in Names : Edit(outcome, name)
    \/ \E c \in Contents : EditorSave(c)

\* the program and the editors it launches
Spec == Init /\ [][Next]_vars

NextEnv ==
    \/ Next
    \/ \E c \in Contents : UserWritesCargo(c)

\* the program, its editors, and a user who puts a config.toml in ~/.cargo
SpecEnv == Init /\ [][NextEnv]_vars

\* the names a user types who sometimes gives the file name, extension
\* included, for the profile name
TypedNames == Names \cup {TomlFile(n) : n \in Names}

CreateTyped(name) == name \in TypedNames /\ Run(Cmd("create", name))

RemoveTyped(name) == name \in TypedNames /\ Run(Cmd("remove", name))

NextFiles ==
    \/ \E name \in TypedNames : CreateTyped(name)
    \/ \E name \in TypedNames : RemoveTyped(name)
    \/ List

\* the program run for create, remove and list alone, on typed names
SpecFiles == Init /\ [][NextFiles]_vars

---------------------------------------------------------------------------
(* Properties *)

\* last is a subcommand that main dispatched (initialise succeeded)
Dispatched(op) == last.op = op /\ last.dispatched

\* last is a run of the program (not a step of its environment)
ProgramRan == last.op \in {"create", "switch", "list", "remove", "edit"}

\* the content of the pointer file
Pointer(f) == f.files[pointerName]

\* C1: for existing profiles a and b, once switch(a) and then switch(b) have
\* been run, config.toml is present, is the same file as b.toml, and (for
\* a # b) is not the same file as a.toml.
C1_SwitchTwice ==
    [][ ( /\ Dispatched("switch") /\ Exists(pre, TomlFile(last.name))
          /\ last'.op = "switch" /\ last'.dispatched
          /\ Exists(pre', TomlFile(last'.name)) )
        => /\ CargoExists(fs')
           /\ SameFile(fs', TomlFile(last'.name))
           /\ (last.name # last'.name => ~SameFile(fs', TomlFile(last.name)))
      ]_vars

\* C2: after every successful switch(name) the pointer file holds exactly
\* name.
C2_PointerIsName ==
    (Dispatched("switch") /\ last.err = "ok")
        => Exists(fs, pointerName) /\ Pointer(fs) = last.name

\* C3: create(name) on an existing name.toml fails with AlreadyExists and
\* changes nothing; a create(name) that follows a successful create(name)
\* fails.
C3_CreateExisting ==
    [][ (last'.op = "create" /\ last'.dispatched)
        => /\ Exists(pre', TomlFile(last'.name))
                => last'.err = "AlreadyExists" /\ fs' = pre'
           /\ (Dispatched("create") /\ last.err = "ok" /\ last.name = last'.name)
                => last'.err = "AlreadyExists"
      ]_vars

\* a create of an existing profile has failed, the profile holding data
C3_Witness ==
    /\ Dispatched("create") /\ last.err = "AlreadyExists"
    /\ Exists(pre, TomlFile(last.name))
    /\ pre.files[TomlFile(last.name)] # <<>>
    /\ fs = pre

\* C4: switch(name) of an existing profile succeeds when ~/.cargo holds no
\* config.toml, and links the profile.
C4_SwitchWithoutCargo ==
    (Dispatched("switch") /\ Exists(pre, TomlFile(last.name)) /\ ~CargoExists(pre))
        => last.err = "ok" /\ SameFile(fs, TomlFile(last.name))

\* C5: where no profile name exists, create(name) and then switch(name) both
\* succeed and leave config.toml the same file as name.toml, with its
\* content.
C5_CreateThenSwitch ==
    [][ ( /\ Dispatched("create") /\ ~Exists(pre, TomlFile(last.name))
          /\ last'.op = "switch" /\ last'.name = last.name )
        => /\ last.err = "ok"
           /\ last'.dispatched /\ last'.err = "ok"
           /\ SameFile(fs', TomlFile(last'.name))
           /\ CargoData(fs') = fs'.files[TomlFile(last'.name)]
      ]_vars

C7_SwitchMissing ==
    (Dispatched("switch") /\ ~Exists(pre, TomlFile(last.name)))
        => last.err = "NotFound" /\ ~CargoExists(fs)

\* a switch to a missing profile has failed where a config.toml was present
C7_Witness ==
    /\ Dispatched("switch") /\ ~Exists(pre, TomlFile(last.name))
    /\ CargoExists(pre)
    /\ last.err = "NotFound"

\* C8: initialise with no pointer file, a config.toml in ~/.cargo and no
\* profile config succeeds, leaving a profile config with the content
\* config.toml had, the pointer file holding exactly "config", and
\* config.toml the same file as the new profile file.
C8_Migration ==
    (ProgramRan /\ Migrates(start) /\ ~Exists(start, TomlFile(configName)))
        => /\ last.dispatched
           /\ Exists(pre, TomlFile(configName))
           /\ pre.files[TomlFile(configName)] = CargoData(start)
           /\ Exists(pre, pointerName) /\ Pointer(pre) = configName
           /\ SameFile(pre, TomlFile(configName))

\* a migration of a config.toml that held data has happened
C8_Witness ==
    /\ ProgramRan /\ Migrates(start) /\ ~Exists(start, TomlFile(configName))
    /\ CargoData(start) # <<>>
    /\ last.dispatched /\ SameFile(pre, TomlFile(configName))

\* C9: initialise with no pointer file, a config.toml in ~/.cargo and an
\* existing profile config fails with AlreadyExists before any subcommand
\* is dispatched, and changes nothing.
C9_MigrationBlocked ==
    (ProgramRan /\ Migrates(start) /\ Exists(start, TomlFile(configName)))
        => /\ ~last.dispatched /\ last.err = "AlreadyExists"
           /\ fs = start
           /\ ~Exists(fs, pointerName)

\* an invocation has been aborted by the failed migration
C9_Witness ==
    /\ ProgramRan /\ Migrates(start) /\ Exists(start, TomlFile(configName))
    /\ ~last.dispatched /\ last.err = "AlreadyExists"
    /\ start.files[TomlFile(configName)] # CargoData(start)

\* C10: remove(name) with no name.toml fails with a NotFound error whose
\* message contains name, and changes nothing.
C10_RemoveMissing ==
    (Dispatched("remove") /\ ~Exists(pre, TomlFile(last.name)))
        => /\ last.err = "NotFound"
           /\ Contains(last.msg, last.name)
           /\ fs = pre

\* a remove of a missing profile has failed, other files being there
C10_Witness ==
    /\ Dispatched("remove") /\ ~Exists(pre, TomlFile(last.name))
    /\ last.err = "NotFound"
    /\ DOMAIN pre.files # {} /\ CargoExists(pre)

\* the pointer file is the same in f and g: missing in both, or present in
\* both with one content
SamePointer(f, g) ==
    /\ Exists(f, pointerName) <=> Exists(g, pointerName)
    /\ Exists(f, pointerName) => Pointer(f) = Pointer(g)

C12_ListNeedsSuccess ==
    [][ /\ (last'.op = "list" /\ last'.dispatched)
            => /\ last'.err = "ok" => Exists(pre', pointerName)
               /\ last'.err # "ok" => last'.out = EmptyBag
        /\ (~Exists(fs, pointerName) /\ Exists(fs', pointerName))
            => \/ last'.op = "switch" /\ last'.dispatched /\ last'.err = "ok"
               \/ CargoExists(fs) /\ Exists(pre', pointerName) /\ last'.dispatched
      ]_vars

\* C12, amended: list succeeds only where the pointer file exists, the
\* pointer file comes into existence only by a run of switch, failed or
\* not, or by a migration, and a list that fails prints nothing.
C12_ListNeedsSwitch ==
    [][ /\ (last'.op = "list" /\ last'.dispatched)
            => /\ last'.err = "ok" => Exists(pre', pointerName)
               /\ last'.err # "ok" => last'.out = EmptyBag
        /\ (~Exists(fs, pointerName) /\ Exists(fs', pointerName))
            => \/ last'.op = "switch" /\ last'.dispatched
               \/ CargoExists(fs) /\ Exists(pre', pointerName) /\ last'.dispatched
      ]_vars

\* list has failed on a profile directory that holds profiles
C12_Witness ==
    /\ Dispatched("list") /\ last.err = "NotFound"
    /\ ~Exists(pre, pointerName)
    /\ DOMAIN pre.files # {}
    /\ last.out = EmptyBag

\* C13: whatever the profile directory holds, the names list prints never
\* include the reserved name cargo-config-current.
C13_ListHidesPointer ==
    Dispatched("list") => ~BagIn(pointerName, last.out)

\* list has printed the profiles of a directory that holds the pointer file
C13_Witness ==
    /\ Dispatched("list") /\ last.err = "ok"
    /\ Exists(pre, pointerName)
    /\ BagCardinality(last.out) >= 2
    /\ ~BagIn(pointerName, last.out)

\* the profile files of f: the directory's entries but the pointer file
ProfileFiles(f) == DOMAIN f.files \ {pointerName}

\* C14: in every state reached through create and remove, no two profile
\* files have the same displayed name (the part of the file name before the
\* first ".toml"), and list prints no name twice.
C14_DistinctDisplayedNames ==
    /\ \A p, q \in ProfileFiles(fs) : p # q => FirstSplit(p) # FirstSplit(q)
    /\ (Dispatched("list") /\ last.err = "ok")
           => \A n \in BagToSet(last.out) : CopiesIn(n, last.out) = 1

\* C15: initialise changes no profile file, nor the pointer file, nor
\* config.toml, when the pointer file exists, and when neither the pointer
\* file nor ~/.cargo/config.toml exists.
C15_InitialiseNoOp ==
    (ProgramRan /\ (Exists(start, pointerName) \/ ~CargoExists(start)))
        => /\ last.dispatched
           /\ pre.files = start.files
           /\ pre.cargo = start.cargo

\* the program has run where the pointer file and a config.toml were there
C15_Witness ==
    /\ ProgramRan /\ last.dispatched
    /\ Exists(start, pointerName) /\ CargoExists(start)
    /\ pre.files = start.files /\ pre.cargo = start.cargo

\* C16: once the pointer file exists it exists ever after, and every later
\* run of the program finds initialise changing nothing: there is no second
\* migration.
C16_MigratesOnce ==
    [][ Exists(fs, pointerName)
        => /\ Exists(fs', pointerName)
           /\ last'.op \in {"create", "switch", "list", "remove", "edit"}
                => /\ last'.dispatched
                   /\ pre'.files = fs.files
                   /\ pre'.cargo = fs.cargo
      ]_vars

\* the program has run where the pointer file existed next to a config.toml
\* that is no profile's file, and the pointer file is still there
C16_Witness ==
    /\ ProgramRan /\ last.dispatched
    /\ Exists(start, pointerName) /\ start.cargo.kind = "own"
    /\ Exists(fs, pointerName)

\* C17 as claimed: a switch that fails leaves the pointer file as it was,
\* and does not create it.
C17_FailedSwitchKeepsPointer ==
    (Dispatched("switch") /\ last.err # "ok") => SamePointer(fs, pre)

\* C17, amended: a switch(name) that fails has written the pointer file all
\* the same: the file exists, its content is name followed by what the old
\* content held beyond the length of name, and no config.toml is left.
C17_FailedSwitchWritesPointer ==
    (Dispatched("switch") /\ last.err # "ok")
        => LET old == IF Exists(pre, pointerName) THEN Pointer(pre) ELSE <<>>
               n == Len(last.name)
           IN  /\ Exists(fs, pointerName)
               /\ IsPrefix(last.name, Pointer(fs))
               /\ SubSeq(Pointer(fs), n + 1, Len(Pointer(fs)))
                     = SubSeq(old, n + 1, Len(old))
               /\ ~CargoExists(fs)

\* a failed switch has changed what the pointer file records
C17_Witness ==
    /\ Dispatched("switch") /\ last.err # "ok"
    /\ Exists(pre, pointerName)
    /\ Pointer(fs) # Pointer(pre)
    /\ IsPrefix(last.name, Pointer(fs))

\* the profile files of f with their contents
Profiles(f) == [p \in ProfileFiles(f) |-> f.files[p]]

\* g holds the profile files of f, unchanged, and the one file p besides
AddsExactly(f, g, p) ==
    /\ p \notin ProfileFiles(f)
    /\ ProfileFiles(g) = ProfileFiles(f) \cup {p}
    /\ \A q \in ProfileFiles(f) : g.files[q] = f.files[q]

\* C18: a run of the program changes the profile files only so: a migrating
\* initialise adds config.toml, a successful create(name) adds name.toml, a
\* successful remove(name) deletes name.toml; switch, list, edit and every
\* failed create or remove leave the profile files and their contents as
\* they were.
C18_ProfileFilesFrame ==
    ProgramRan
        => /\ IF ~Exists(start, pointerName) /\ CargoExists(start) /\ last.dispatched
              THEN AddsExactly(start, pre, TomlFile(configName))
              ELSE Profiles(pre) = Profiles(start)
           /\ last.dispatched
                => CASE last.op = "create" /\ last.err = "ok" ->
                            AddsExactly(pre, fs, TomlFile(last.name))
                     [] last.op = "remove" /\ last.err = "ok" ->
                            AddsExactly(fs, pre, TomlFile(last.name))
                     [] OTHER -> Profiles(fs) = Profiles(pre)

\* a switch has succeeded on a directory of two profiles or more, and a
\* profile holds data
C18_Witness ==
    /\ Dispatched("switch") /\ last.err = "ok"
    /\ Cardinality(ProfileFiles(pre)) >= 2
    /\ \E p \in ProfileFiles(pre) : pre.files[p] # <<>>
    /\ Profiles(fs) = Profiles(pre)

====
